---- MODULE Spec2Model ----
(***************************************************************************)
(* Model of geode-io/golambdas, package httpbridge: one invocation of the   *)
(* Lambda function built by ServeHTTP.  A JSON payload is classified        *)
(* (demuxAmbiguousRequest), canonicalized into an *http.Request            *)
(* (Canonize), handed to the wrapped http.Handler, which writes into a      *)
(* lambdaHTTPResponseWriter, and the writer is transcoded into the reply    *)
(* envelope (TranscodeFrom) and marshalled to JSON.                         *)
(*                                                                          *)
(* Go strings and byte slices that the code takes apart (paths, header      *)
(* keys, forwarded-for values, bodies) are sequences of byte values         *)
(* 0..255.  Strings the code only compares or joins (response header        *)
(* values, error messages) are TLA+ strings.                                *)
(***************************************************************************)
EXTENDS Integers, Sequences, FiniteSets, TLC

VARIABLES
    pc,                 \* "idle" | "handling" | "done": position in the lambdaHandler closure
    req,                \* the decoded payload of this invocation (NoEnvelope before it)
    httpRequest,        \* the canonical request Canonize built (NoRequest if none)
    statusCode,         \* lambdaHTTPResponseWriter.statusCode
    header,             \* lambdaHTTPResponseWriter.header: canonical key -> sequence of values
    body,               \* lambdaHTTPResponseWriter.body: accumulated bytes
    preparedResponse,   \* lambdaHTTPResponseWriter.preparedResponse: "nil" | "alb" | "v2" | "v1"
    bodyRead,           \* what the handler obtained by reading httpRequest.Body
    out,                \* the response envelope TranscodeFrom filled, before json.Marshal
    reply,              \* what the invoking runtime receives from lambdaHandler
    demuxed,            \* what demuxAmbiguousRequest returned: the variant and the error
    failed,             \* the stage at which the invocation failed, "none" if it did not
    calls,              \* the Write/WriteHeader/Flush calls the handler has made, in order
    nHeaderOps,         \* Header().Add calls the handler has made
    handlerCalls,       \* times handler.ServeHTTP was entered
    lowLevelMiddlewares, \* apiOptions.lowLevelMiddlewares: the middlewares, in order
    handler,            \* the handler the closure calls: its wrappers, outermost first
    entered             \* the wrappers this invocation has entered, in order

vars == <<pc, req, httpRequest, statusCode, header, body, preparedResponse,
          bodyRead, out, reply, demuxed, failed, calls, nHeaderOps, handlerCalls,
          lowLevelMiddlewares, handler, entered>>

\* The state of ServeAPI: the options and the wrapped handler.
apiVars == <<lowLevelMiddlewares, handler>>

nCalls == Len(calls)

(***************************************************************************)
(* Bounds of the model.                                                     *)
(***************************************************************************)
MaxCalls == 2        \* Write/WriteHeader/Flush calls per invocation
MaxHeaderOps == 2    \* Header().Add calls per invocation
MaxMiddlewares == 2  \* middlewares given through the HTTPMiddleware option

(***************************************************************************)
(* Program constants.                                                       *)
(***************************************************************************)
StatusOK == 200
StatusInternalServerError == 500
mimeTypeApplicationOctetStream == "application/octet-stream"
ErrUnsupportedRequestType == "unsupported request type"

(***************************************************************************)
(* Byte-string helpers.                                                     *)
(***************************************************************************)
Bytes == 0..255

IsUpper(c) == c >= 65 /\ c <= 90
IsLower(c) == c >= 97 /\ c <= 122
IsDigit(c) == c >= 48 /\ c <= 57

\* textproto.validHeaderFieldByte: the RFC 7230 token characters.
validHeaderFieldByte(c) ==
    \/ IsUpper(c) \/ IsLower(c) \/ IsDigit(c)
    \/ c \in {33, 35, 36, 37, 38, 39, 42, 43, 45, 46, 94, 95, 96, 124, 126}

ToUpper(c) == IF IsLower(c) THEN c - 32 ELSE c
ToLower(c) == IF IsUpper(c) THEN c + 32 ELSE c

\* http.CanonicalHeaderKey (textproto.CanonicalMIMEHeaderKey): a key holding a
\* byte that is no token character is returned unchanged; otherwise the first
\* letter and every letter after '-' is upper-cased and the rest lower-cased.
CanonicalHeaderKey(k) ==
    IF \E i \in 1..Len(k) : ~validHeaderFieldByte(k[i])
    THEN k
    ELSE [i \in 1..Len(k) |->
            IF i = 1 \/ k[i - 1] = 45 THEN ToUpper(k[i]) ELSE ToLower(k[i])]

\* Header names the code uses, as byte strings.
StrHost == <<104, 111, 115, 116>>                                     \* "host"
StrSetCookie == <<115, 101, 116, 45, 99, 111, 111, 107, 105, 101>>    \* "set-cookie"
StrContentType ==
    <<99, 111, 110, 116, 101, 110, 116, 45, 116, 121, 112, 101>>      \* "content-type"
StrTransferEncoding ==
    <<116, 114, 97, 110, 115, 102, 101, 114, 45,
      101, 110, 99, 111, 100, 105, 110, 103>>                         \* "transfer-encoding"
StrXForwardedFor ==
    <<120, 45, 102, 111, 114, 119, 97, 114, 100, 101, 100, 45,
      102, 111, 114>>                                                 \* "x-forwarded-for"

hostHeader == CanonicalHeaderKey(StrHost)
setCookieHeader == CanonicalHeaderKey(StrSetCookie)
contentTypeHeader == CanonicalHeaderKey(StrContentType)
transferEncodingHeader == CanonicalHeaderKey(StrTransferEncoding)

(***************************************************************************)
(* http.Header: a map from key to a list of values, here a function whose   *)
(* domain is the set of keys present.                                       *)
(***************************************************************************)
EmptyHeader == <<>>

HasKey(h, k) == k \in DOMAIN h

\* h[k] = v (a plain map assignment, the key taken as written).
MapSet(h, k, v) == [x \in (DOMAIN h) \cup {k} |-> IF x = k THEN v ELSE h[x]]

\* http.Header.Add: appends under the canonical form of the key.
HeaderAdd(h, k, v) ==
    LET ck == CanonicalHeaderKey(k)
    IN  MapSet(h, ck, IF HasKey(h, ck) THEN Append(h[ck], v) ELSE <<v>>)

\* http.Header.Set: replaces the values under the canonical form of the key.
HeaderSet(h, k, v) == MapSet(h, CanonicalHeaderKey(k), <<v>>)

\* http.Header.Get over values of type string; "" when the key has no value.
HeaderGet(h, k, none) ==
    LET ck == CanonicalHeaderKey(k)
    IN  IF HasKey(h, ck) /\ Len(h[ck]) > 0 THEN h[ck][1] ELSE none

(***************************************************************************)
(* Conversions of the Go standard library the code calls.                   *)
(***************************************************************************)
IsHex(c) == IsDigit(c) \/ (c >= 97 /\ c <= 102) \/ (c >= 65 /\ c <= 70)

UnHex(c) ==
    IF IsDigit(c) THEN c - 48
    ELSE IF c >= 97 /\ c <= 102 THEN c - 97 + 10
    ELSE c - 65 + 10

\* url.PathUnescape: every '%' must be followed by two hex digits, and the
\* three bytes become one; anything else is copied.  [ok |-> FALSE] is
\* url.EscapeError.
RECURSIVE PathUnescape(_)
PathUnescape(s) ==
    IF Len(s) = 0 THEN [ok |-> TRUE, val |-> <<>>]
    ELSE IF s[1] = 37
    THEN IF Len(s) >= 3 /\ IsHex(s[2]) /\ IsHex(s[3])
         THEN LET rest == PathUnescape(SubSeq(s, 4, Len(s)))
              IN  [ok |-> rest.ok,
                   val |-> <<UnHex(s[2]) * 16 + UnHex(s[3])>> \o rest.val]
         ELSE [ok |-> FALSE, val |-> <<>>]
    ELSE LET rest == PathUnescape(Tail(s))
         IN  [ok |-> rest.ok, val |-> <<s[1]>> \o rest.val]

\* strings.SplitN(s, ",", 2)[0]: the bytes before the first comma, or all of s.
RECURSIVE BeforeComma(_)
BeforeComma(s) ==
    IF Len(s) = 0 \/ s[1] = 44 THEN <<>>
    ELSE <<s[1]>> \o BeforeComma(Tail(s))

\* The base64.StdEncoding alphabet: index 0..63 -> character.
B64Char(i) ==
    IF i < 26 THEN 65 + i
    ELSE IF i < 52 THEN 97 + (i - 26)
    ELSE IF i < 62 THEN 48 + (i - 52)
    ELSE IF i = 62 THEN 43
    ELSE 47

B64Pad == <<61>>

IsB64Char(c) == IsUpper(c) \/ IsLower(c) \/ IsDigit(c) \/ c = 43 \/ c = 47

B64Index(c) ==
    IF IsUpper(c) THEN c - 65
    ELSE IF IsLower(c) THEN c - 97 + 26
    ELSE IF IsDigit(c) THEN c - 48 + 52
    ELSE IF c = 43 THEN 62
    ELSE 63

\* base64.StdEncoding.EncodeToString: three bytes become four characters, a
\* final group of one or two bytes is padded with '='.
RECURSIVE Base64Encode(_)
Base64Encode(b) ==
    IF Len(b) = 0 THEN <<>>
    ELSE IF Len(b) = 1
    THEN <<B64Char(b[1] \div 4), B64Char((b[1] % 4) * 16)>> \o B64Pad \o B64Pad
    ELSE IF Len(b) = 2
    THEN <<B64Char(b[1] \div 4),
           B64Char((b[1] % 4) * 16 + (b[2] \div 16)),
           B64Char((b[2] % 16) * 4)>> \o B64Pad
    ELSE <<B64Char(b[1] \div 4),
           B64Char((b[1] % 4) * 16 + (b[2] \div 16)),
           B64Char((b[2] % 16) * 4 + (b[3] \div 64)),
           B64Char(b[3] % 64)>> \o Base64Encode(SubSeq(b, 4, Len(b)))

\* base64.StdEncoding decoding (padded, not strict): groups of four
\* characters, '=' only at the end of the last group.  [ok |-> FALSE] is
\* base64.CorruptInputError.
RECURSIVE Base64Decode(_)
Base64Decode(s) ==
    IF Len(s) = 0 THEN [ok |-> TRUE, val |-> <<>>]
    ELSE IF Len(s) < 4 \/ ~IsB64Char(s[1]) \/ ~IsB64Char(s[2])
    THEN [ok |-> FALSE, val |-> <<>>]
    ELSE LET i1 == B64Index(s[1])
             i2 == B64Index(s[2])
             b1 == i1 * 4 + (i2 \div 16)
         IN  IF s[3] = 61
             THEN [ok |-> Len(s) = 4 /\ s[4] = 61, val |-> <<b1>>]
             ELSE IF ~IsB64Char(s[3]) THEN [ok |-> FALSE, val |-> <<>>]
             ELSE LET i3 == B64Index(s[3])
                      b2 == (i2 % 16) * 16 + (i3 \div 4)
                  IN  IF s[4] = 61
                      THEN [ok |-> Len(s) = 4, val |-> <<b1, b2>>]
                      ELSE IF ~IsB64Char(s[4]) THEN [ok |-> FALSE, val |-> <<>>]
                      ELSE LET b3 == (i3 % 4) * 64 + B64Index(s[4])
                               rest == Base64Decode(SubSeq(s, 5, Len(s)))
                           IN  [ok |-> rest.ok,
                                val |-> <<b1, b2, b3>> \o rest.val]

IsCont(c) == c >= 128 /\ c <= 191

\* utf8.DecodeRuneInString at the head of s: the length of the well-formed
\* UTF-8 sequence that starts there, or 0 when the first byte is invalid
\* (utf8.RuneError of width 1).
RuneLen(s) ==
    LET c == s[1]
        n == Len(s)
    IN  IF c < 128 THEN 1
        ELSE IF c >= 194 /\ c <= 223
        THEN IF n >= 2 /\ IsCont(s[2]) THEN 2 ELSE 0
        ELSE IF c >= 224 /\ c <= 239
        THEN IF /\ n >= 3
                /\ s[2] >= (IF c = 224 THEN 160 ELSE 128)
                /\ s[2] <= (IF c = 237 THEN 159 ELSE 191)
                /\ IsCont(s[3])
             THEN 3 ELSE 0
        ELSE IF c >= 240 /\ c <= 244
        THEN IF /\ n >= 4
                /\ s[2] >= (IF c = 240 THEN 144 ELSE 128)
                /\ s[2] <= (IF c = 244 THEN 143 ELSE 191)
                /\ IsCont(s[3])
                /\ IsCont(s[4])
             THEN 4 ELSE 0
        ELSE 0

\* U+FFFD, the replacement rune, in UTF-8.
ReplacementRune == <<239, 191, 189>>

\* A Go string as a reader of the JSON document gets it back: json.Marshal
\* coerces a string value to valid UTF-8, writing U+FFFD for every byte that
\* starts no well-formed sequence; every other byte survives the escaping.
RECURSIVE JSONString(_)
JSONString(s) ==
    IF Len(s) = 0 THEN <<>>
    ELSE LET n == RuneLen(s)
         IN  IF n = 0
             THEN ReplacementRune \o JSONString(Tail(s))
             ELSE SubSeq(s, 1, n) \o JSONString(SubSeq(s, n + 1, Len(s)))

\* The bytes http.DetectContentType treats as binary data.
IsBinaryByte(c) ==
    \/ c <= 8
    \/ c = 11
    \/ (c >= 14 /\ c <= 26)
    \/ (c >= 28 /\ c <= 31)

HasPrefix(s, p) == Len(s) >= Len(p) /\ SubSeq(s, 1, Len(p)) = p

\* http.DetectContentType, for data shorter than 512 bytes.  Of its
\* signature table the model keeps the exact-prefix signatures below; data
\* that matches none is text/plain when it holds no binary byte and
\* application/octet-stream otherwise.
DetectContentType(data) ==
    IF HasPrefix(data, <<37, 80, 68, 70, 45>>) THEN "application/pdf"             \* "%PDF-"
    ELSE IF HasPrefix(data, <<71, 73, 70, 56, 57, 97>>) THEN "image/gif"           \* "GIF89a"
    ELSE IF HasPrefix(data, <<255, 216, 255>>) THEN "image/jpeg"
    ELSE IF HasPrefix(data, <<254, 255>>) /\ Len(data) > 2 THEN "text/plain; charset=utf-16be"
    ELSE IF HasPrefix(data, <<255, 254>>) /\ Len(data) > 2 THEN "text/plain; charset=utf-16le"
    ELSE IF \A i \in 1..Len(data) : ~IsBinaryByte(data[i])
    THEN "text/plain; charset=utf-8"
    ELSE mimeTypeApplicationOctetStream

(***************************************************************************)
(* Payloads.  A payload is the JSON object the runtime hands over, given    *)
(* by the fields the code decodes from it.  decode says how json.Unmarshal  *)
(* fares: "ok"; "markers": a marker field has the wrong JSON type, so the   *)
(* decode into ambiguousLambdaRequest fails; "fields": the markers decode   *)
(* but another field of the typed event has the wrong JSON type.            *)
(* path is the format's path field (rawPath for GatewayV2), method its      *)
(* method field; identitySourceIP is requestContext.identity.sourceIp and   *)
(* httpSourceIP is requestContext.http.sourceIp.                            *)
(***************************************************************************)
StrGET == <<71, 69, 84>>                    \* "GET"
StrBadMethod == <<71, 32, 84>>              \* "G T"
StrPathOK == <<47, 97, 37, 50, 48, 98>>     \* "/a%20b"
StrPathBad == <<47, 37, 122, 122>>          \* "/%zz"
StrBodyText == <<104, 105>>                 \* "hi"
StrBodyB64 == <<97, 71, 107, 61>>           \* "aGk=", base64 of "hi"
StrIdentityIP == <<49, 48, 46, 49>>         \* "10.1"
StrHTTPIP == <<49, 48, 46, 50>>             \* "10.2"
StrXFFCanonical == CanonicalHeaderKey(StrXForwardedFor)   \* "X-Forwarded-For"
StrIPList == <<55, 46, 55, 44, 56, 46, 56>> \* "7.7,8.8"
StrIPOne == <<57, 46, 57>>                  \* "9.9"
StrIPTwo == <<54, 46, 54>>                  \* "6.6"

ArnValues == {"", "arn:aws:elasticloadbalancing:tg"}
VersionValues == {"", "1.0", "2.0"}
AccountValues == {"", "123456789012"}
DecodeValues == {"ok", "markers", "fields"}

\* Single-value header maps of a payload (JSON object keys are case-sensitive).
SingleHeaderMaps ==
    { EmptyHeader,
      (StrXForwardedFor :> StrIPOne),
      (StrXFFCanonical :> StrIPTwo),
      (StrXForwardedFor :> StrIPOne) @@ (StrXFFCanonical :> StrIPTwo) }

\* Multi-value header maps of a payload.
MultiHeaderMaps ==
    { EmptyHeader,
      (StrXForwardedFor :> <<StrIPList, StrIPTwo>>),
      (StrXFFCanonical :> <<StrIPList>>),
      (StrXForwardedFor :> <<>>),
      (StrXForwardedFor :> <<StrIPList>>) @@ (StrXFFCanonical :> <<StrIPOne, StrIPTwo>>) }

\* Payloads that vary what classification and the failure paths of Canonize
\* read: the decode outcome, the three markers, the path and the method.
ClassifierEnvelopes ==
    [ decode : DecodeValues,
      arn : ArnValues,
      version : VersionValues,
      accountId : AccountValues,
      path : {StrPathOK, StrPathBad},
      method : {StrGET, StrBadMethod},
      headers : {EmptyHeader},
      multiValueHeaders : {EmptyHeader},
      body : {StrBodyText},
      isBase64Encoded : {FALSE},
      identitySourceIP : {StrIdentityIP},
      httpSourceIP : {StrHTTPIP} ]

\* Payloads that vary what a successful Canonize reads: the markers, both
\* header maps, the body and its base64 flag.
CanonizerEnvelopes ==
    [ decode : {"ok"},
      arn : ArnValues,
      version : VersionValues,
      accountId : AccountValues,
      path : {StrPathOK},
      method : {StrGET},
      headers : SingleHeaderMaps,
      multiValueHeaders : MultiHeaderMaps,
      body : {StrBodyText, StrBodyB64},
      isBase64Encoded : BOOLEAN,
      identitySourceIP : {StrIdentityIP},
      httpSourceIP : {StrHTTPIP} ]

Envelopes == ClassifierEnvelopes \cup CanonizerEnvelopes

NoEnvelope == [decode |-> "none"]

\* A payload of each format with nothing unusual in it.
PlainEnvelope(a, v, c) ==
    [ decode |-> "ok", arn |-> a, version |-> v, accountId |-> c,
      path |-> StrPathOK, method |-> StrGET,
      headers |-> EmptyHeader, multiValueHeaders |-> EmptyHeader,
      body |-> StrBodyText, isBase64Encoded |-> FALSE,
      identitySourceIP |-> StrIdentityIP, httpSourceIP |-> StrHTTPIP ]

ALBEnvelope == PlainEnvelope("arn:aws:elasticloadbalancing:tg", "", "")
V2Envelope == PlainEnvelope("", "2.0", "123456789012")
V1Envelope == PlainEnvelope("", "1.0", "123456789012")

\* The payloads the full pipeline is explored with.
PipelineEnvelopes ==
    { ALBEnvelope, V2Envelope, V1Envelope,
      PlainEnvelope("", "", ""),
      [V1Envelope EXCEPT !.path = StrPathBad],
      [V2Envelope EXCEPT !.decode = "fields"],
      [ALBEnvelope EXCEPT !.decode = "markers"] }

(***************************************************************************)
(* Envelope Classifier.                                                     *)
(***************************************************************************)
ErrJSON == "json: cannot unmarshal"

\* demuxAmbiguousRequest with the account-id case tried before the version
\* case.
demuxAccountFirst(payload) ==
    IF payload.decode = "markers"
    THEN [kind |-> "nil", err |-> ErrJSON, prepared |-> "nil"]
    ELSE LET err == IF payload.decode = "fields" THEN ErrJSON ELSE "nil"
         IN  IF payload.arn # ""
             THEN [kind |-> "alb", err |-> err, prepared |-> "alb"]
             ELSE IF payload.accountId # ""
             THEN [kind |-> "v1", err |-> err, prepared |-> "v1"]
             ELSE IF payload.version = "2.0"
             THEN [kind |-> "v2", err |-> err, prepared |-> "v2"]
             ELSE [kind |-> "nil", err |-> ErrUnsupportedRequestType,
                   prepared |-> "nil"]

\* demuxAmbiguousRequest: [kind, err, prepared], kind "nil" when the request
\* returned is nil, err "nil" when the error returned is nil, prepared the
\* value rw.preparedResponse holds afterwards.
demuxAmbiguousRequest(payload) ==
    IF payload.decode = "markers"
    THEN [kind |-> "nil", err |-> ErrJSON, prepared |-> "nil"]
    ELSE LET err == IF payload.decode = "fields" THEN ErrJSON ELSE "nil"
         IN  IF payload.arn # ""
             THEN [kind |-> "alb", err |-> err, prepared |-> "alb"]
             ELSE IF payload.version = "2.0"
             THEN [kind |-> "v2", err |-> err, prepared |-> "v2"]
             ELSE IF payload.accountId # ""
             THEN [kind |-> "v1", err |-> err, prepared |-> "v1"]
             ELSE [kind |-> "nil", err |-> ErrUnsupportedRequestType,
                   prepared |-> "nil"]

(***************************************************************************)
(* Request Canonicalizer.                                                   *)
(***************************************************************************)
ErrUnescape == "failed to unescape path"
ErrNewRequest == "failed to canonize incoming http request"

NoRequest == [made |-> FALSE]

\* The orders in which a range loop may visit the keys of a Go map.
KeyOrders(m) ==
    { o \in [1..Cardinality(DOMAIN m) -> DOMAIN m] :
        \A i, j \in DOMAIN o : i # j => o[i] # o[j] }

\* for k, v := range r.Headers { headers.Add(k, v) }, visiting keys in order o.
RECURSIVE AddAll(_, _, _)
AddAll(h, m, o) ==
    IF Len(o) = 0 THEN h
    ELSE AddAll(HeaderAdd(h, o[1], m[o[1]]), m, Tail(o))

\* for k, v := range r.MultiValueHeaders { headers[k] = v }: the keys are
\* distinct, so the order of the visits does not matter.
RECURSIVE AssignAll(_, _, _)
AssignAll(h, m, keys) ==
    IF keys = {} THEN h
    ELSE LET k == CHOOSE x \in keys : TRUE
         IN  AssignAll(MapSet(h, k, m[k]), m, keys \ {k})

\* The io.Reader each Canonize builds for the body.  dec: a base64 decoder is
\* on top; src: the reader underneath, "strings" for strings.NewReader(r.Body)
\* and "nil" for the nil io.Reader that `var body io.Reader` declares.
BodyReader(r) ==
    IF r.isBase64Encoded
    THEN [dec |-> TRUE, src |-> "nil", data |-> <<>>]
    ELSE [dec |-> FALSE, src |-> "strings", data |-> r.body]

\* net/http.validMethod, after NewRequestWithContext has replaced "" by GET.
validMethod(m) ==
    Len(m) = 0 \/ \A i \in 1..Len(m) : validHeaderFieldByte(m[i])

\* The tail every Canonize shares: unescape the path, build the request.
BuildRequest(r, headers, remoteAddr) ==
    LET path == PathUnescape(r.path)
    IN  IF ~path.ok
        THEN [ok |-> FALSE, err |-> ErrUnescape, request |-> NoRequest]
        ELSE IF ~validMethod(r.method)
        THEN [ok |-> FALSE, err |-> ErrNewRequest, request |-> NoRequest]
        ELSE [ok |-> TRUE, err |-> "nil",
              request |-> [made |-> TRUE,
                           method |-> IF Len(r.method) = 0 THEN StrGET ELSE r.method,
                           host |-> HeaderGet(headers, StrHost, <<>>),
                           path |-> path.val,
                           header |-> headers,
                           remoteAddr |-> remoteAddr,
                           body |-> BodyReader(r)]]

\* apiGatewayV2Request.Canonize
CanonizeV2(r, o) ==
    BuildRequest(r, AddAll(EmptyHeader, r.headers, o), r.httpSourceIP)

\* apiGatewayV1Request.Canonize
CanonizeV1(r, o) ==
    BuildRequest(r,
                 AssignAll(AddAll(EmptyHeader, r.headers, o),
                           r.multiValueHeaders, DOMAIN r.multiValueHeaders),
                 r.identitySourceIP)

\* albRequest.sourceIP
sourceIP(r) ==
    IF /\ HasKey(r.multiValueHeaders, StrXForwardedFor)
       /\ Len(r.multiValueHeaders[StrXForwardedFor]) > 0
    THEN BeforeComma(r.multiValueHeaders[StrXForwardedFor][1])
    ELSE <<>>

\* albRequest.Canonize
CanonizeALB(r, o) ==
    BuildRequest(r, AddAll(EmptyHeader, r.headers, o), sourceIP(r))

\* lambdaHTTPRequest.Canonize, dispatched on the variant demux returned.
Canonize(kind, r, o) ==
    IF kind = "alb" THEN CanonizeALB(r, o)
    ELSE IF kind = "v2" THEN CanonizeV2(r, o)
    ELSE CanonizeV1(r, o)

(***************************************************************************)
(* Response Capture Buffer: lambdaHTTPResponseWriter.  The operators take   *)
(* and return the writer as a record of its fields.                         *)
(***************************************************************************)
Writer ==
    [statusCode |-> statusCode, header |-> header, body |-> body,
     preparedResponse |-> preparedResponse]

\* What the handler may pass to Write: a nil slice, an empty slice, text, a
\* byte http.DetectContentType counts as binary, the first bytes of a JPEG.
NilData == [isNil |-> TRUE, bytes |-> <<>>]
Data(b) == [isNil |-> FALSE, bytes |-> b]
Chunks == {NilData, Data(<<>>), Data(<<97>>), Data(<<0>>), Data(<<255, 216, 255>>)}

\* What the handler may pass to WriteHeader.
StatusCodes == {0, StatusOK, 404}

\* What the handler may pass to Header().Add.
HeaderPairs ==
    { <<StrContentType, mimeTypeApplicationOctetStream>>,
      <<StrContentType, "text/html">>,
      <<StrTransferEncoding, "chunked">>,
      <<StrSetCookie, "a=1">> }

\* lambdaHTTPResponseWriter.writeHeaderLine
writeHeaderLine(l, data) ==
    IF l.statusCode # 0 THEN l
    ELSE LET hasType == HasKey(l.header, contentTypeHeader)
             hasTE == HeaderGet(l.header, transferEncodingHeader, "") # ""
         IN  [l EXCEPT
                !.statusCode = StatusOK,
                !.header = IF ~hasType /\ ~hasTE /\ ~data.isNil
                           THEN HeaderSet(@, contentTypeHeader,
                                          DetectContentType(data.bytes))
                           ELSE @]

\* lambdaHTTPResponseWriter.Write
WriterWrite(l, data) ==
    [writeHeaderLine(l, data) EXCEPT !.body = @ \o data.bytes]

\* lambdaHTTPResponseWriter.WriteHeader
WriterWriteHeader(l, code) ==
    IF l.statusCode # 0 THEN l ELSE [l EXCEPT !.statusCode = code]

\* lambdaHTTPResponseWriter.Flush
WriterFlush(l) ==
    IF l.statusCode # 0 THEN l ELSE WriterWriteHeader(l, StatusOK)

(***************************************************************************)
(* Response Transcoder.  An envelope is the Go struct TranscodeFrom fills;  *)
(* a nil map is EmptyHeader.  panic: the call does not return.              *)
(***************************************************************************)
EmptyEnvelope(kind) ==
    [kind |-> kind, statusCode |-> 0, statusDescription |-> "",
     headers |-> EmptyHeader, multiValueHeaders |-> EmptyHeader,
     cookies |-> <<>>, body |-> <<>>, bodyText |-> "",
     isBase64Encoded |-> FALSE]

\* http.StatusText, for the codes of the model.
StatusText(code) ==
    IF code = 200 THEN "OK"
    ELSE IF code = 404 THEN "Not Found"
    ELSE IF code = 500 THEN "Internal Server Error"
    ELSE ""

\* strings.Join(v, ",")
RECURSIVE Join(_)
Join(v) ==
    IF Len(v) = 0 THEN ""
    ELSE IF Len(v) = 1 THEN v[1]
    ELSE v[1] \o "," \o Join(Tail(v))

\* The body policy with the binary flag set for every body that is not
\* declared text.
BinaryBodyUnlessText(r, l) ==
    IF HeaderGet(l.header, contentTypeHeader, "") \in
          {"text/html", "text/plain; charset=utf-8"}
    THEN [r EXCEPT !.body = l.body]
    ELSE [r EXCEPT !.body = Base64Encode(l.body), !.isBase64Encoded = TRUE]

\* The body policy every TranscodeFrom repeats: base64 exactly when the
\* Content-Type header is application/octet-stream.
BinaryBody(r, l) ==
    IF HeaderGet(l.header, contentTypeHeader, "") = mimeTypeApplicationOctetStream
    THEN [r EXCEPT !.body = Base64Encode(l.body), !.isBase64Encoded = TRUE]
    ELSE [r EXCEPT !.body = l.body]

\* apiGatewayV2Response.TranscodeFrom
TranscodeV2(l) ==
    LET keys == DOMAIN l.header
        r == [EmptyEnvelope("v2") EXCEPT
                !.statusCode = l.statusCode,
                !.headers = [k \in keys \ {setCookieHeader} |-> Join(l.header[k])],
                !.cookies = IF setCookieHeader \in keys
                            THEN l.header[setCookieHeader] ELSE <<>>]
    IN  [panic |-> FALSE, env |-> BinaryBody(r, l)]

\* The header loop apiGatewayV1Response and albResponse share.  r.Headers is
\* made; r.MultiValueHeaders is the nil map of the fresh envelope, and an
\* assignment to an entry of a nil map panics.
SplitHeaders(r, l) ==
    LET keys == DOMAIN l.header
        multi == {k \in keys : Len(l.header[k]) > 1}
        single == {k \in keys : Len(l.header[k]) = 1}
    IN  [panic |-> multi # {},
         env |-> [r EXCEPT !.headers = [k \in single |-> l.header[k][1]]]]

\* apiGatewayV1Response.TranscodeFrom
TranscodeV1(l) ==
    LET r == [EmptyEnvelope("v1") EXCEPT !.statusCode = l.statusCode]
        h == SplitHeaders(r, l)
    IN  [panic |-> h.panic, env |-> BinaryBody(h.env, l)]

\* albResponse.TranscodeFrom
TranscodeALB(l) ==
    LET r == [EmptyEnvelope("alb") EXCEPT
                !.statusCode = l.statusCode,
                !.statusDescription = StatusText(l.statusCode)]
        h == SplitHeaders(r, l)
    IN  [panic |-> h.panic, env |-> BinaryBody(h.env, l)]

\* The leastCommonDenominatorResponse ambiguousLambdaResponse.TranscodeFrom
\* builds when no response was prepared.
TranscodeLCD(l) ==
    LET r == [EmptyEnvelope("lcd") EXCEPT !.statusCode = l.statusCode]
    IN  [panic |-> FALSE, env |-> BinaryBody(r, l)]

\* lambdaHTTPResponse.TranscodeFrom, dispatched on the prepared response.
TranscodeFrom(variant, l) ==
    IF variant = "alb" THEN TranscodeALB(l)
    ELSE IF variant = "v2" THEN TranscodeV2(l)
    ELSE IF variant = "v1" THEN TranscodeV1(l)
    ELSE TranscodeLCD(l)

\* json.Marshal of an envelope, as the reader of the document gets it back.
Marshal(env) == [env EXCEPT !.body = JSONString(@)]

\* ambiguousLambdaResponse.TranscodeFrom: [panic, out, bytes].
AmbiguousTranscodeFrom(l) ==
    LET t == TranscodeFrom(l.preparedResponse, l)
    IN  [panic |-> t.panic, out |-> t.env, bytes |-> Marshal(t.env)]

(***************************************************************************)
(* Invocation Orchestrator: the lambdaHandler closure of ServeHTTP.         *)
(***************************************************************************)
NoReply == [EmptyEnvelope("none") EXCEPT !.kind = "none"] @@ [err |-> "nil"]

\* A reply the closure returns together with a nil error.
Returned(env) == env @@ [err |-> "nil"]

\* json.Marshal(leastCommonDenominatorResponse{StatusCode: 500, Body: err.Error()})
ErrorReply(err) ==
    Returned([EmptyEnvelope("lcd") EXCEPT
                !.statusCode = StatusInternalServerError, !.bodyText = err])

\* The closure did not return: a panic unwinds into the invoking runtime.
PanicReply == [NoReply EXCEPT !.kind = "panic"]

\* Before an invocation: nothing received, a zero lambdaHTTPResponseWriter.
Fresh ==
    /\ req = NoEnvelope
    /\ httpRequest = NoRequest
    /\ statusCode = 0
    /\ header = EmptyHeader
    /\ body = <<>>
    /\ preparedResponse = "nil"
    /\ bodyRead = [done |-> FALSE, ok |-> FALSE, bytes |-> <<>>]
    /\ out = EmptyEnvelope("none")
    /\ reply = NoReply
    /\ demuxed = [kind |-> "nil", err |-> "nil"]
    /\ failed = "none"
    /\ calls = <<>>
    /\ nHeaderOps = 0
    /\ handlerCalls = 0
    /\ entered = <<>>

\* ServeHTTP(handler) with no middleware: the closure calls the handler as
\* it was given.
Init ==
    /\ pc = "idle"
    /\ Fresh
    /\ lowLevelMiddlewares = <<>>
    /\ handler = <<>>

\* The closure up to the call of the handler: classify, canonicalize.
Start(payload, o) ==
    /\ pc = "idle"
    /\ req' = payload
    /\ LET d == demuxAmbiguousRequest(payload)
       IN  /\ preparedResponse' = d.prepared
           /\ demuxed' = [kind |-> d.kind, err |-> d.err]
           /\ IF d.err # "nil"
              THEN /\ reply' = ErrorReply(d.err)
                   /\ failed' = "classify"
                   /\ pc' = "done"
                   /\ UNCHANGED <<httpRequest, handlerCalls>>
              ELSE LET c == Canonize(d.kind, payload, o)
                   IN  IF ~c.ok
                       THEN /\ reply' = ErrorReply(c.err)
                            /\ failed' = "canonize"
                            /\ pc' = "done"
                            /\ UNCHANGED <<httpRequest, handlerCalls>>
                       ELSE /\ httpRequest' = c.request
                            /\ handlerCalls' = handlerCalls + 1
                            /\ pc' = IF handler = <<>> THEN "handling"
                                     ELSE "middleware"
                            /\ UNCHANGED <<reply, failed>>
    /\ UNCHANGED <<statusCode, header, body, bodyRead, out, calls, nHeaderOps,
                   entered>>
    /\ UNCHANGED apiVars

\* The handler calls w.Header().Add(k, v).
AddHeader(k, v) ==
    /\ pc = "handling"
    /\ nHeaderOps < MaxHeaderOps
    /\ header' = HeaderAdd(header, k, v)
    /\ nHeaderOps' = nHeaderOps + 1
    /\ UNCHANGED <<pc, req, httpRequest, statusCode, body, preparedResponse,
                   bodyRead, out, reply, demuxed, failed, calls, handlerCalls,
                   entered>>
    /\ UNCHANGED apiVars

\* A call of the handler on the writer, as calls records it.
Call(op, code, data) == [op |-> op, code |-> code, data |-> data]

\* The writer's fields after the call c, which left it as l.
SetWriter(l, c) ==
    /\ statusCode' = l.statusCode
    /\ header' = l.header
    /\ body' = l.body
    /\ calls' = Append(calls, c)
    /\ UNCHANGED <<pc, req, httpRequest, preparedResponse, bodyRead, out, reply,
                   demuxed, failed, nHeaderOps, handlerCalls, entered>>
    /\ UNCHANGED apiVars

\* The handler calls w.Write(data).
Write(data) ==
    /\ pc = "handling"
    /\ nCalls < MaxCalls
    /\ SetWriter(WriterWrite(Writer, data), Call("Write", 0, data))

\* The handler calls w.WriteHeader(code).
WriteHeader(code) ==
    /\ pc = "handling"
    /\ nCalls < MaxCalls
    /\ SetWriter(WriterWriteHeader(Writer, code), Call("WriteHeader", code, NilData))

\* The handler calls w.Flush().
Flush ==
    /\ pc = "handling"
    /\ nCalls < MaxCalls
    /\ SetWriter(WriterFlush(Writer), Call("Flush", 0, NilData))

\* io.ReadAll on the request body: a read through a nil io.Reader is a nil
\* dereference, which panics out of the handler and of the closure.
ReadAll(rd) ==
    IF rd.src = "nil" THEN [panic |-> TRUE, ok |-> FALSE, bytes |-> <<>>]
    ELSE IF rd.dec
    THEN LET d == Base64Decode(rd.data)
         IN  [panic |-> FALSE, ok |-> d.ok, bytes |-> d.val]
    ELSE [panic |-> FALSE, ok |-> TRUE, bytes |-> rd.data]

\* The handler reads the request body to its end.
ReadBody ==
    /\ pc = "handling"
    /\ ~bodyRead.done
    /\ LET r == ReadAll(httpRequest.body)
       IN  IF r.panic
           THEN /\ pc' = "done"
                /\ reply' = PanicReply
                /\ failed' = "handler"
                /\ UNCHANGED bodyRead
           ELSE /\ bodyRead' = [done |-> TRUE, ok |-> r.ok, bytes |-> r.bytes]
                /\ UNCHANGED <<pc, reply, failed>>
    /\ UNCHANGED <<req, httpRequest, statusCode, header, body, preparedResponse,
                   out, demuxed, calls, nHeaderOps, handlerCalls, entered>>
    /\ UNCHANGED apiVars

\* The handler returns; the closure transcodes the writer and returns.
Finish ==
    /\ pc = "handling"
    /\ pc' = "done"
    /\ LET t == AmbiguousTranscodeFrom(Writer)
       IN  IF t.panic
           THEN /\ reply' = PanicReply
                /\ failed' = "transcode"
                /\ UNCHANGED out
           ELSE /\ out' = t.out
                /\ reply' = Returned(t.bytes)
                /\ UNCHANGED failed
    /\ UNCHANGED <<req, httpRequest, statusCode, header, body, preparedResponse,
                   bodyRead, demuxed, calls, nHeaderOps, handlerCalls, entered>>
    /\ UNCHANGED apiVars

\* One invocation of the function ServeHTTP builds, with a handler that
\* writes its response and does not read the request body.
Next ==
    \/ \E payload \in PipelineEnvelopes :
         \E o \in KeyOrders(payload.headers) : Start(payload, o)
    \/ \E p \in HeaderPairs : AddHeader(p[1], p[2])
    \/ \E data \in Chunks : Write(data)
    \/ \E code \in StatusCodes : WriteHeader(code)
    \/ Flush
    \/ Finish

Spec == Init /\ [][Next]_vars

\* Classification and canonicalization over the whole payload domain, with a
\* handler that only reads the body.
NextRequest ==
    \/ \E payload \in Envelopes :
         \E o \in KeyOrders(payload.headers) : Start(payload, o)
    \/ ReadBody
    \/ Finish

SpecRequest == Init /\ [][NextRequest]_vars

(***************************************************************************)
(* ServeAPI: the options, the wrapped handler, an invocation through it.    *)
(***************************************************************************)

\* The middlewares of the model: Logging at two levels.
Middlewares == {"Logging(Info)", "Logging(Debug)"}

\* What one HTTPMiddleware option may carry: one middleware or two.
MiddlewareLists ==
    {<<m>> : m \in Middlewares} \cup {<<m, n>> : m, n \in Middlewares}

\* for _, middleware := range ms { h = middleware(h) }: each middleware
\* wraps what the ones before it built, so the last is the outermost.
RECURSIVE Wrap(_, _)
Wrap(h, ms) ==
    IF ms = <<>> THEN h ELSE Wrap(<<Head(ms)>> \o h, Tail(ms))

\* ServeAPI before any option is applied: useOpts := apiOptions{}.
InitAPI ==
    /\ pc = "configuring"
    /\ Fresh
    /\ lowLevelMiddlewares = <<>>
    /\ handler = <<>>

\* ServeAPI applies an option HTTPMiddleware(ms...): the middlewares are
\* appended to useOpts.lowLevelMiddlewares.
HTTPMiddleware(ms) ==
    /\ pc = "configuring"
    /\ Len(lowLevelMiddlewares) + Len(ms) <= MaxMiddlewares
    /\ lowLevelMiddlewares' = lowLevelMiddlewares \o ms
    /\ UNCHANGED <<pc, req, httpRequest, statusCode, header, body,
                   preparedResponse, bodyRead, out, reply, demuxed, failed,
                   calls, nHeaderOps, handlerCalls, handler, entered>>

\* ServeHTTP's loop over its middleware arguments, on the handler h.
ServeHTTP(h, ms) == Wrap(h, ms)

\* The rest of ServeAPI: the served API is wrapped in the middlewares of the
\* options, and the result is handed to ServeHTTP together with the same
\* middlewares.
ServeAPI ==
    /\ pc = "configuring"
    /\ handler' = ServeHTTP(Wrap(<<>>, lowLevelMiddlewares), lowLevelMiddlewares)
    /\ pc' = "idle"
    /\ UNCHANGED <<req, httpRequest, statusCode, header, body,
                   preparedResponse, bodyRead, out, reply, demuxed, failed,
                   calls, nHeaderOps, handlerCalls, lowLevelMiddlewares,
                   entered>>

\* The invocation enters the next wrapper of the handler, which passes it on
\* to what it wraps; past the innermost wrapper it reaches the served API.
Middleware ==
    /\ pc = "middleware"
    /\ entered' = Append(entered, handler[Len(entered) + 1])
    /\ pc' = IF Len(entered) + 1 = Len(handler) THEN "handling" ELSE "middleware"
    /\ UNCHANGED <<req, httpRequest, statusCode, header, body,
                   preparedResponse, bodyRead, out, reply, demuxed, failed,
                   calls, nHeaderOps, handlerCalls>>
    /\ UNCHANGED apiVars

\* ServeAPI with its options, then one invocation of the function it
\* returns, with an API that answers by a Flush or not at all.
NextAPI ==
    \/ \E ms \in MiddlewareLists : HTTPMiddleware(ms)
    \/ ServeAPI
    \/ \E payload \in PipelineEnvelopes :
         \E o \in KeyOrders(payload.headers) : Start(payload, o)
    \/ Middleware
    \/ Flush
    \/ Finish

SpecAPI == InitAPI /\ [][NextAPI]_vars

(***************************************************************************)
(* The claims.                                                              *)
(***************************************************************************)

\* The format the markers of a payload select by first match: LoadBalancer,
\* then GatewayV2, then GatewayV1, else none.
SelectedFormat(p) ==
    IF p.arn # "" THEN "alb"
    ELSE IF p.version = "2.0" THEN "v2"
    ELSE IF p.accountId # "" THEN "v1"
    ELSE "nil"

\* The claim's statement about a payload that has been classified: the
\* variant returned and the response prepared are of the selected format,
\* and with no marker set the error is ErrUnsupportedRequestType and no
\* response is prepared.
ClassifiedByMarkers ==
    IF SelectedFormat(req) = "nil"
    THEN /\ demuxed.kind = "nil"
         /\ demuxed.err = ErrUnsupportedRequestType
         /\ preparedResponse = "nil"
    ELSE /\ demuxed.kind = SelectedFormat(req)
         /\ preparedResponse = SelectedFormat(req)
         /\ demuxed.err # ErrUnsupportedRequestType

\* C1 as stated: every JSON object payload is classified by the first match
\* among its markers (target-group ARN, then version "2.0", then account id),
\* the variant returned and the response prepared are of that format, and a
\* payload with no marker fails with ErrUnsupportedRequestType with no
\* response prepared.
C1_AsStated == pc # "idle" => ClassifiedByMarkers

\* C1 amended: the same, for every JSON object payload whose marker fields
\* decode; a payload with a marker field of the wrong JSON type fails with
\* the decoding error, returns no variant and prepares no response.
C1_Classification ==
    pc # "idle" =>
        IF req.decode = "markers"
        THEN /\ demuxed.kind = "nil"
             /\ demuxed.err = ErrJSON
             /\ preparedResponse = "nil"
        ELSE ClassifiedByMarkers

\* C1 witness: a payload carrying both version "2.0" and an account id was
\* classified GatewayV2 and its handler entered.
C1_Witness ==
    /\ pc = "handling"
    /\ req.arn = ""
    /\ req.version = "2.0"
    /\ req.accountId # ""
    /\ demuxed.kind = "v2"
    /\ preparedResponse = "v2"

\* C2 as stated: a failure of classification, of canonicalization or of
\* transcoding ends the invocation with the least-common-denominator reply
\* of status 500 whose body is the error's message, returned with a nil
\* error; the handler is not entered when classification or
\* canonicalization failed, and is entered at most once.
C2_AsStated ==
    /\ handlerCalls <= 1
    /\ handlerCalls = 1 => demuxed.err = "nil" /\ httpRequest # NoRequest
    /\ failed \in {"classify", "canonize"} => handlerCalls = 0
    /\ failed \in {"classify", "canonize", "transcode"} =>
          /\ pc = "done"
          /\ reply.kind = "lcd"
          /\ reply.statusCode = StatusInternalServerError
          /\ reply.bodyText # ""
          /\ reply.err = "nil"

\* C2, the part the code keeps: the same for classification and
\* canonicalization failures, the message being the one of the failure.
C2_RequestFailures ==
    /\ handlerCalls <= 1
    /\ handlerCalls = 1 => demuxed.err = "nil" /\ httpRequest # NoRequest
    /\ failed \in {"classify", "canonize"} =>
          /\ handlerCalls = 0
          /\ pc = "done"
          /\ reply.kind = "lcd"
          /\ reply.statusCode = StatusInternalServerError
          /\ reply.err = "nil"
          /\ reply.bodyText =
                IF failed = "classify" THEN demuxed.err
                ELSE IF PathUnescape(req.path).ok THEN ErrNewRequest
                ELSE ErrUnescape

\* C2 witness: a path with an invalid percent-escape ended the invocation
\* with the 500 reply before the handler was entered.
C2_Witness ==
    /\ pc = "done"
    /\ failed = "canonize"
    /\ req.path = StrPathBad
    /\ reply.statusCode = StatusInternalServerError
    /\ reply.bodyText = ErrUnescape
    /\ handlerCalls = 0

\* The Content-Type entry of a header map: whether the key is there, and
\* its values.
ContentTypeEntry(h) ==
    [present |-> HasKey(h, contentTypeHeader),
     values |-> IF HasKey(h, contentTypeHeader) THEN h[contentTypeHeader] ELSE <<>>]

\* A step that is one more Write, WriteHeader or Flush call of the handler.
WriterCall == calls' # calls

\* C3 as stated: once a first Write, WriteHeader (with any status code) or
\* Flush has returned, no later Write, WriteHeader or Flush changes the
\* status code or sets or changes the Content-Type header, and every Write
\* appends its bytes to the body.
C3_AsStated ==
    [][WriterCall =>
          /\ nCalls >= 1 =>
                /\ statusCode' = statusCode
                /\ ContentTypeEntry(header') = ContentTypeEntry(header)
          /\ calls'[Len(calls')].op = "Write" =>
                body' = body \o calls'[Len(calls')].data.bytes
          /\ calls'[Len(calls')].op # "Write" => body' = body]_vars

\* C3, the part the code keeps: the same once the status code is not 0, that
\* is after a first Write, a first Flush or a first WriteHeader with a code
\* other than 0.
C3_OnceFinalized ==
    [][WriterCall =>
          /\ statusCode # 0 =>
                /\ statusCode' = statusCode
                /\ ContentTypeEntry(header') = ContentTypeEntry(header)
          /\ calls'[Len(calls')].op = "Write" =>
                body' = body \o calls'[Len(calls')].data.bytes
          /\ calls'[Len(calls')].op # "Write" => body' = body]_vars

\* C3 witness: WriteHeader(404) came first and a later Write of text left
\* the status and the absent Content-Type as they were, and appended.
C3_Witness ==
    /\ nCalls = 2
    /\ calls[1] = Call("WriteHeader", 404, NilData)
    /\ calls[2] = Call("Write", 0, Data(<<97>>))
    /\ statusCode = 404
    /\ ~HasKey(header, contentTypeHeader)
    /\ body = <<97>>

\* The call a WriterCall step makes.
ThisCall == calls'[Len(calls')]

\* C10 as stated: on a fresh buffer a first Write sets the status to 200 and
\* sets Content-Type by sniffing the bytes exactly when neither Content-Type
\* nor Transfer-Encoding is present; a first Flush sets 200 and no
\* Content-Type; a first WriteHeader(code) sets code and no Content-Type; and
\* after a first Flush or WriteHeader a later Write does no sniffing.
C10_AsStated ==
    [][WriterCall =>
          /\ nCalls = 0 /\ ThisCall.op = "Write" =>
                /\ statusCode' = StatusOK
                /\ header' =
                      IF /\ ~HasKey(header, contentTypeHeader)
                         /\ ~HasKey(header, transferEncodingHeader)
                      THEN HeaderSet(header, contentTypeHeader,
                                     DetectContentType(ThisCall.data.bytes))
                      ELSE header
          /\ nCalls = 0 /\ ThisCall.op = "Flush" =>
                statusCode' = StatusOK /\ header' = header
          /\ nCalls = 0 /\ ThisCall.op = "WriteHeader" =>
                statusCode' = ThisCall.code /\ header' = header
          /\ nCalls >= 1 /\ calls[1].op # "Write" /\ ThisCall.op = "Write" =>
                header' = header]_vars

\* C10, the part the code keeps: the same with a first Write of a non-nil
\* slice (a nil slice sets no Content-Type) and a first WriteHeader with a
\* code other than 0.
C10_FirstCall ==
    [][WriterCall =>
          /\ nCalls = 0 /\ ThisCall.op = "Write" =>
                /\ statusCode' = StatusOK
                /\ header' =
                      IF /\ ~HasKey(header, contentTypeHeader)
                         /\ ~HasKey(header, transferEncodingHeader)
                         /\ ~ThisCall.data.isNil
                      THEN HeaderSet(header, contentTypeHeader,
                                     DetectContentType(ThisCall.data.bytes))
                      ELSE header
          /\ nCalls = 0 /\ ThisCall.op = "Flush" =>
                statusCode' = StatusOK /\ header' = header
          /\ nCalls = 0 /\ ThisCall.op = "WriteHeader" =>
                statusCode' = ThisCall.code /\ header' = header
          /\ /\ nCalls >= 1
             /\ calls[1].op # "Write"
             /\ calls[1] # Call("WriteHeader", 0, NilData)
             /\ ThisCall.op = "Write"
             => header' = header]_vars

\* C10 witness: a first Write of a binary byte on a buffer with no headers
\* set the status to 200 and Content-Type to application/octet-stream.
C10_Witness ==
    /\ calls = <<Call("Write", 0, Data(<<0>>))>>
    /\ nHeaderOps = 0
    /\ statusCode = StatusOK
    /\ header = HeaderSet(EmptyHeader, contentTypeHeader,
                          mimeTypeApplicationOctetStream)

\* The header placement the claim asks of an envelope r built from the
\* header map h: a key with one value is in the single-value map only, a key
\* with several is in the multi-value map only, with all of them, and the
\* multi-value map holds no key with exactly one value.
HeadersPlaced(r, h) ==
    /\ \A k \in DOMAIN h :
          /\ Len(h[k]) = 1 =>
                /\ HasKey(r.headers, k)
                /\ r.headers[k] = h[k][1]
                /\ ~HasKey(r.multiValueHeaders, k)
          /\ Len(h[k]) > 1 =>
                /\ HasKey(r.multiValueHeaders, k)
                /\ r.multiValueHeaders[k] = h[k]
                /\ ~HasKey(r.headers, k)
    /\ \A k \in DOMAIN r.multiValueHeaders : Len(r.multiValueHeaders[k]) # 1

\* C4 as stated: for the GatewayV1 and LoadBalancer envelopes transcoding
\* any capture buffer completes, and every header key with N >= 1 values is
\* placed in exactly one of the two maps, the single-value map when N = 1
\* and the multi-value map, with all N values, when N > 1.
C4_AsStated ==
    pc = "handling" =>
        \A variant \in {"v1", "alb"} :
            LET t == TranscodeFrom(variant, Writer)
            IN  ~t.panic /\ HeadersPlaced(t.env, header)

\* C4, the part the code keeps: a capture buffer whose header keys all hold
\* one value is transcoded with every key in the single-value map.
C4_SingleValued ==
    pc = "handling" /\ (\A k \in DOMAIN header : Len(header[k]) = 1) =>
        \A variant \in {"v1", "alb"} :
            LET t == TranscodeFrom(variant, Writer)
            IN  ~t.panic /\ HeadersPlaced(t.env, header)

\* C4 witness: a reply of the GatewayV1 format carries a single-valued
\* header in its single-value map.
C4_Witness ==
    /\ pc = "done"
    /\ reply.kind = "v1"
    /\ HasKey(header, setCookieHeader)
    /\ HasKey(reply.headers, setCookieHeader)

\* The response variants, by the response the writer holds prepared.
Variants == {"v1", "v2", "alb", "nil"}

C5_WitnessText ==
    /\ pc = "done"
    /\ failed = "none"
    /\ ~out.isBase64Encoded
    /\ out.body = <<97>>

\* The bytes the handler passed to Write, in order.
RECURSIVE Written(_)
Written(cs) ==
    IF Len(cs) = 0 THEN <<>>
    ELSE (IF cs[1].op = "Write" THEN cs[1].data.bytes ELSE <<>>)
         \o Written(Tail(cs))

\* The handler set a status (not 0) and then only wrote, or only wrote.
FixedStatusAndBody(cs) ==
    /\ Len(cs) >= 1
    /\ cs[1].op = "Write" \/ (cs[1].op = "WriteHeader" /\ cs[1].code # 0)
    /\ \A i \in 2..Len(cs) : cs[i].op = "Write"

\* The status such a handler set: its WriteHeader code, or 200.
StatusSet(cs) == IF cs[1].op = "WriteHeader" THEN cs[1].code ELSE StatusOK

\* The body of a reply read according to its isBase64Encoded flag.
ReplyBody(r) ==
    IF r.isBase64Encoded THEN Base64Decode(r.body)
    ELSE [ok |-> TRUE, val |-> r.body]

\* C6 as stated: for each of the three formats, when the handler writes a
\* fixed status and body, or only a body, the reply carries the status the
\* handler set (200 with only a body) and its body, read according to
\* isBase64Encoded, is exactly the bytes the handler wrote, in order.
C6_AsStated ==
    pc = "done" /\ failed = "none" /\ FixedStatusAndBody(calls) =>
        /\ reply.kind = preparedResponse
        /\ reply.statusCode = StatusSet(calls)
        /\ ReplyBody(reply) = [ok |-> TRUE, val |-> Written(calls)]

\* C6, the part the code keeps: the status always, and the body when the
\* bytes written are valid UTF-8 or the Content-Type at transcode time is
\* application/octet-stream.
C6_StatusAndTextBody ==
    pc = "done" /\ failed = "none" /\ FixedStatusAndBody(calls) =>
        /\ reply.kind = preparedResponse
        /\ reply.statusCode = StatusSet(calls)
        /\ (reply.isBase64Encoded \/ JSONString(Written(calls)) = Written(calls)) =>
              ReplyBody(reply) = [ok |-> TRUE, val |-> Written(calls)]

\* C6 witness: a LoadBalancer reply to a handler that wrote text twice and
\* set no status.
C6_Witness ==
    /\ pc = "done"
    /\ reply.kind = "alb"
    /\ calls = <<Call("Write", 0, Data(<<97>>)), Call("Write", 0, Data(<<97>>))>>
    /\ reply.statusCode = StatusOK
    /\ reply.body = <<97, 97>>
    /\ ~reply.isBase64Encoded

\* C7 as stated: for each Canonize variant, reading the canonical request's
\* body yields the standard-base64 decoding of the envelope's body field
\* when isBase64Encoded is set (here for a body field that is valid base64),
\* and the body field's bytes unchanged when it is not.
C7_AsStated ==
    /\ bodyRead.done =>
          /\ bodyRead.ok
          /\ bodyRead.bytes = IF req.isBase64Encoded
                              THEN Base64Decode(req.body).val
                              ELSE req.body
    /\ httpRequest # NoRequest
       /\ (req.isBase64Encoded => Base64Decode(req.body).ok)
       => failed # "handler"

\* C7, the part the code keeps: with isBase64Encoded not set, the read
\* yields the body field's bytes unchanged.
C7_TextBody ==
    bodyRead.done =>
        /\ ~req.isBase64Encoded
        /\ bodyRead.ok
        /\ bodyRead.bytes = req.body

\* C7 witness: the handler of a GatewayV2 request read an unencoded body.
C7_Witness ==
    /\ bodyRead.done
    /\ demuxed.kind = "v2"
    /\ ~req.isBase64Encoded
    /\ bodyRead.bytes = StrBodyText

\* http.Header.Values: the values under the canonical form of the key.
HeaderValues(h, k) ==
    IF HasKey(h, CanonicalHeaderKey(k)) THEN h[CanonicalHeaderKey(k)] ELSE <<>>

\* The keys of a map that are spellings of the same header name as k.
Spellings(m, k) ==
    {x \in DOMAIN m : CanonicalHeaderKey(x) = CanonicalHeaderKey(k)}

\* C8 as stated: for GatewayV1 and LoadBalancer, every key of the
\* single-value and of the multi-value header map is present in the
\* canonical request's header (under some spelling), and for a key present
\* in both maps, in any letter case, the header holds exactly the
\* multi-value entry's values under every spelling of it, the single value
\* being replaced.  (The second part is checked for header names each map
\* spells in one way only.)
C8_AsStated ==
    httpRequest # NoRequest /\ demuxed.kind \in {"v1", "alb"} =>
        /\ \A k \in (DOMAIN req.headers) \cup (DOMAIN req.multiValueHeaders) :
              Spellings(httpRequest.header, k) # {}
        /\ \A k \in (DOMAIN req.headers) \cap (DOMAIN req.multiValueHeaders) :
              /\ Spellings(req.headers, k) = {k}
              /\ Spellings(req.multiValueHeaders, k) = {k}
              => \A x \in Spellings(httpRequest.header, k) :
                    httpRequest.header[x] = req.multiValueHeaders[k]

\* C8, the part the code keeps: for GatewayV1 a key present in both maps
\* in its canonical spelling holds exactly the multi-value entry's values,
\* and every key of the single-value map is present.
C8_CanonicalKeysV1 ==
    httpRequest # NoRequest /\ demuxed.kind = "v1" =>
        /\ \A k \in DOMAIN req.headers :
              HasKey(httpRequest.header, CanonicalHeaderKey(k))
        /\ \A k \in (DOMAIN req.headers) \cap (DOMAIN req.multiValueHeaders) :
              k = CanonicalHeaderKey(k) =>
                  HeaderValues(httpRequest.header, k) = req.multiValueHeaders[k]

\* C8 witness: a GatewayV1 request with X-Forwarded-For in both maps holds
\* the multi-value entry's single value.
C8_Witness ==
    /\ httpRequest # NoRequest
    /\ demuxed.kind = "v1"
    /\ DOMAIN req.headers = {StrXFFCanonical}
    /\ DOMAIN req.multiValueHeaders = {StrXFFCanonical}
    /\ HeaderValues(httpRequest.header, StrXForwardedFor) = <<StrIPList>>

\* The first addresses of the forwarded-for entries a payload carries, in
\* either header map and any letter case.
ForwardedFirst(p) ==
    { BeforeComma(p.headers[k]) : k \in Spellings(p.headers, StrXForwardedFor) }
    \cup
    { BeforeComma(p.multiValueHeaders[k][1]) :
        k \in { x \in Spellings(p.multiValueHeaders, StrXForwardedFor) :
                  Len(p.multiValueHeaders[x]) > 0 } }

\* C9 as stated: for LoadBalancer the remote address is the first address
\* of the forwarded-for header whenever the payload carries that header, in
\* its single-value or its multi-value map, and empty only when it carries
\* none; for the gateway formats it is the source IP of the format's
\* identity/context object.
C9_AsStated ==
    httpRequest # NoRequest =>
        /\ demuxed.kind = "alb" =>
              IF ForwardedFirst(req) = {}
              THEN httpRequest.remoteAddr = <<>>
              ELSE httpRequest.remoteAddr \in ForwardedFirst(req)
        /\ demuxed.kind = "v1" => httpRequest.remoteAddr = req.identitySourceIP
        /\ demuxed.kind = "v2" => httpRequest.remoteAddr = req.httpSourceIP

\* C9, the part the code keeps: for LoadBalancer the remote address is the
\* first address of the first value the multi-value map holds under the
\* exact key "x-forwarded-for", and empty when there is none; the gateway
\* formats as stated.
C9_MultiValueOnly ==
    httpRequest # NoRequest =>
        /\ demuxed.kind = "alb" =>
              httpRequest.remoteAddr =
                  IF /\ StrXForwardedFor \in DOMAIN req.multiValueHeaders
                     /\ Len(req.multiValueHeaders[StrXForwardedFor]) > 0
                  THEN BeforeComma(req.multiValueHeaders[StrXForwardedFor][1])
                  ELSE <<>>
        /\ demuxed.kind = "v1" => httpRequest.remoteAddr = req.identitySourceIP
        /\ demuxed.kind = "v2" => httpRequest.remoteAddr = req.httpSourceIP

\* C9 witness: a LoadBalancer request whose multi-value map carries
\* "7.7,8.8" under x-forwarded-for has the remote address "7.7".
C9_Witness ==
    /\ httpRequest # NoRequest
    /\ demuxed.kind = "alb"
    /\ httpRequest.remoteAddr = <<55, 46, 55>>

\* The closure of the typed serve after its handler returned: newResp(),
\* TranscodeFrom on the writer l, castResp; a panic leaves no reply.
serve(variant, l) ==
    LET t == TranscodeFrom(variant, l)
    IN  IF t.panic THEN PanicReply ELSE Returned(t.env)

\* The typed entry points, by the response newResp makes.
TypedVariants == {"v2", "v1", "alb"}

\* The handler never passed 0 to WriteHeader.
NoZeroWriteHeader ==
    \A i \in 1..Len(calls) : ~(calls[i].op = "WriteHeader" /\ calls[i].code = 0)

\* Every call the handler made on the writer was WriteHeader(0); true also
\* of a handler that made no call.
OnlyZeroWriteHeader ==
    \A i \in 1..Len(calls) : calls[i].op = "WriteHeader" /\ calls[i].code = 0

\* C11 as stated: when the handler has returned without ever passing 0 to
\* WriteHeader, the reply of ServeHTTP and the reply of each typed serve carry
\* a status code other than 0, and the status code is 200 when the handler
\* never called Write, WriteHeader or Flush.
C11_AsStated ==
    pc = "done" /\ failed = "none" /\ NoZeroWriteHeader =>
        /\ reply.statusCode # 0
        /\ calls = <<>> => reply.statusCode = StatusOK
        /\ \A variant \in TypedVariants :
              LET r == serve(variant, Writer)
              IN  r.kind # "panic" =>
                      /\ r.statusCode # 0
                      /\ calls = <<>> => r.statusCode = StatusOK

\* C11, the part the code keeps: the status code of the reply is 0 exactly
\* when every call of the handler on the writer, if it made any, was
\* WriteHeader(0); any Write, Flush or WriteHeader of another code finalizes
\* a status code other than 0.
C11_Finalized ==
    pc = "done" /\ failed = "none" =>
        /\ reply.statusCode = 0 <=> OnlyZeroWriteHeader
        /\ \A variant \in TypedVariants :
              LET r == serve(variant, Writer)
              IN  r.kind # "panic" => (r.statusCode = 0 <=> OnlyZeroWriteHeader)

\* C11 witness: the handler of a GatewayV1 invocation returned without a
\* call of Write, WriteHeader or Flush and a reply was produced.
C11_Witness ==
    /\ pc = "done"
    /\ failed = "none"
    /\ handlerCalls = 1
    /\ calls = <<>>
    /\ reply.kind = "v1"
    /\ reply.err = "nil"

\* How many times the middleware m stands in the sequence ms.
RECURSIVE Count(_, _)
Count(ms, m) ==
    IF ms = <<>> THEN 0
    ELSE (IF Head(ms) = m THEN 1 ELSE 0) + Count(Tail(ms), m)

\* The invocation went through the wrappers and reached the served API.
ReachedAPI ==
    \/ pc = "handling"
    \/ pc = "done" /\ failed \notin {"classify", "canonize"}

\* C12 as stated: in the handler ServeAPI builds, an invocation that reaches
\* the served API has passed through each middleware of the HTTPMiddleware
\* options exactly as many times as it was supplied, once for a middleware
\* supplied once.
C12_AsStated ==
    ReachedAPI =>
        \A m \in Middlewares : Count(entered, m) = Count(lowLevelMiddlewares, m)

\* C12, what the code does: an invocation that reaches the served API has
\* passed through each middleware twice as many times as it was supplied,
\* entering the supplied list last to first and then last to first again.
C12_Twice ==
    ReachedAPI =>
        /\ \A m \in Middlewares :
              Count(entered, m) = 2 * Count(lowLevelMiddlewares, m)
        /\ entered = Wrap(<<>>, lowLevelMiddlewares) \o Wrap(<<>>, lowLevelMiddlewares)

\* C12 witness: with two different middlewares supplied, an invocation has
\* gone through the wrappers and reached the served API.
C12_Witness ==
    /\ pc = "handling"
    /\ Len(lowLevelMiddlewares) = 2
    /\ lowLevelMiddlewares[1] # lowLevelMiddlewares[2]
    /\ entered = handler
    /\ handlerCalls = 1

====
